---- MODULE Spec2Model ----
(***************************************************************************)
(* Model of the Chatpicking scripts: collect.mjs (time-bounded collection  *)
(* of group messages over a NapCat/OneBot v11 WebSocket) and fetch.mjs     *)
(* (one correlated get_group_msg_history request).  Both are Node.js       *)
(* programs: one thread, callbacks run to completion, an await             *)
(* continuation runs right after the callback that settled the promise.    *)
(*                                                                         *)
(* Strings are tuples of one-character strings.  An optional value is a    *)
(* tuple of length 0 (undefined / null / NaN) or 1.                        *)
(***************************************************************************)
EXTENDS Integers, Sequences, FiniteSets, TLC

\* ------------------------------------------------------------------------
\* Bounds of the model
\* ------------------------------------------------------------------------
MaxFrames == 3      \* inbound frames delivered in one run
MaxReq == 2         \* sendRequest calls of the correlator harness
MaxTicks == 1       \* one-millisecond clock steps between timer deadlines

\* ------------------------------------------------------------------------
\* Program constants
\* ------------------------------------------------------------------------
DefaultDuration == 60
DefaultCount == 100
ConnectTimeoutMs == 10000
RequestTimeoutMs == 15000
MsPerMinute == 60 * 1000

\* ------------------------------------------------------------------------
\* JavaScript helpers
\* ------------------------------------------------------------------------
None == <<>>
Some(x) == <<x>>

Digits == <<"0", "1", "2", "3", "4", "5", "6", "7", "8", "9">>

IsDigit(c) == \E i \in 1..10 : Digits[i] = c

DigitVal(c) == (CHOOSE i \in 1..10 : Digits[i] = c) - 1

\* String(n) of a non-negative integer
RECURSIVE NatToStr(_)
NatToStr(n) ==
    IF n < 10 THEN <<Digits[n + 1]>>
    ELSE NatToStr(n \div 10) \o <<Digits[(n % 10) + 1]>>

RECURSIVE SkipSpaces(_)
SkipSpaces(s) ==
    IF s # <<>> /\ Head(s) = " " THEN SkipSpaces(Tail(s)) ELSE s

\* value of the longest prefix of digits of s, continuing from acc
RECURSIVE DigitsValue(_, _)
DigitsValue(s, acc) ==
    IF s # <<>> /\ IsDigit(Head(s))
    THEN DigitsValue(Tail(s), acc * 10 + DigitVal(Head(s)))
    ELSE acc

\* parseInt(s, 10): leading blanks, an optional sign, then the longest
\* prefix of digits; NaN (None) when there is no digit
ParseInt(s) ==
    LET t == SkipSpaces(s)
        neg == t # <<>> /\ Head(t) = "-"
        u == IF t # <<>> /\ Head(t) \in {"-", "+"} THEN Tail(t) ELSE t
    IN  IF u # <<>> /\ IsDigit(Head(u))
        THEN Some(IF neg THEN 0 - DigitsValue(u, 0) ELSE DigitsValue(u, 0))
        ELSE None

\* String(v) of an optional JSON integer: a missing field is "undefined"
Undefined == <<"u", "n", "d", "e", "f", "i", "n", "e", "d">>
ToStr(v) == IF v = None THEN Undefined ELSE NatToStr(v[1])

\* a === b on numbers: NaN equals nothing
StrictEq(a, b) == a # None /\ b # None /\ a = b

\* p || d on a number: NaN and 0 are falsy
OrDefault(p, d) == IF p = None \/ p[1] = 0 THEN d ELSE p[1]

RECURSIVE TrimEnd(_)
TrimEnd(s) ==
    IF s # <<>> /\ s[Len(s)] = " " THEN TrimEnd(SubSeq(s, 1, Len(s) - 1)) ELSE s

Trim(s) == TrimEnd(SkipSpaces(s))

RECURSIVE JoinTexts(_)
JoinTexts(segs) ==
    IF segs = <<>> THEN <<>>
    ELSE (IF Head(segs).type = "text" THEN Head(segs).text ELSE <<>>)
         \o JoinTexts(Tail(segs))

\* extractText(message): '' unless message is an array; the text of the
\* segments of type 'text', joined and trimmed
extractText(message) ==
    IF ~message.isArray THEN <<>> ELSE Trim(JoinTexts(message.segs))

\* msg.sender?.nickname || msg.sender?.card || `用户${user_id || '未知'}`
SenderName(sender) ==
    IF sender.nickname # <<>> THEN sender.nickname
    ELSE IF sender.card # <<>> THEN sender.card
    ELSE <<"U">> \o (IF sender.user_id # 0 THEN NatToStr(sender.user_id) ELSE <<"?">>)

\* formatMessage(msg): null (None) when the extracted text is empty
formatMessage(msg) ==
    LET text == extractText(msg.message)
    IN  IF text = <<>> THEN None
        ELSE Some([sender |-> SenderName(msg.sender),
                   user_id |-> IF msg.sender.user_id # 0 THEN Some(msg.sender.user_id) ELSE None,
                   time |-> IF msg.time # 0 THEN Some(msg.time * 1000) ELSE None,
                   timestamp |-> IF msg.time # 0 THEN Some(msg.time) ELSE None,
                   content |-> text])

\* rawMessages.map(formatMessage).filter(Boolean)
RECURSIVE MapFilter(_)
MapFilter(items) ==
    IF items = <<>> THEN <<>>
    ELSE formatMessage(Head(items)) \o MapFilter(Tail(items))

\* ------------------------------------------------------------------------
\* Inputs: command lines, inbound frames
\* ------------------------------------------------------------------------
TextSeg(t) == [type |-> "text", text |-> t]
ImageSeg == [type |-> "image", text |-> <<>>]

MsgHelloWorld == [isArray |-> TRUE, segs |-> <<TextSeg(<<"a", " ">>), ImageSeg, TextSeg(<<"b">>)>>]
MsgPadded == [isArray |-> TRUE, segs |-> <<TextSeg(<<" ", "b", " ">>)>>]
MsgBlank == [isArray |-> TRUE, segs |-> <<TextSeg(<<" ">>)>>]
MsgImage == [isArray |-> TRUE, segs |-> <<ImageSeg>>]
MsgAbsent == [isArray |-> FALSE, segs |-> <<>>]

NoSender == [nickname |-> <<>>, card |-> <<>>, user_id |-> 0]
KnownSender == [nickname |-> <<"n">>, card |-> <<"c">>, user_id |-> 7]

\* message objects: the body of a push event, an item of a history batch
Item(m, s, t) == [message |-> m, sender |-> s, time |-> t]
ItemText == Item(MsgHelloWorld, KnownSender, 5)
ItemEmpty == Item(MsgImage, KnownSender, 4)
ItemLate == Item(MsgPadded, NoSender, 3)
ItemBlank == Item(MsgBlank, KnownSender, 0)
ItemAbsent == Item(MsgAbsent, NoSender, 0)
Items == {ItemText, ItemEmpty, ItemLate, ItemBlank, ItemAbsent}
ItemLists == {<<>>, <<ItemText, ItemEmpty, ItemLate>>}

\* the data of a response: a list, an object with a messages list, an
\* object without one, or null
Payloads ==
    [shape : {"list", "nested"}, items : ItemLists]
    \cup {[shape |-> "object", items |-> <<>>], [shape |-> "null", items |-> <<>>]}
NullPayload == [shape |-> "null", items |-> <<>>]

RetCodes == {0, 1404}

\* the echo of a request: `req_${requestId}_${Date.now()}`
Echo(id, t) == <<"req", id, t>>
BogusEcho == Echo(0, 0)

\* an inbound frame: raw text that parses as JSON or does not, and the
\* fields of the parsed object (a missing field is None, "" or 0)
BlankFrame ==
    [json |-> TRUE, echo |-> None, retcode |-> 0, data |-> NullPayload,
     msg |-> <<>>, post_type |-> "", message_type |-> "", group_id |-> None,
     message |-> MsgAbsent, sender |-> NoSender, time |-> 0]

MalformedFrames == {[BlankFrame EXCEPT !.json = FALSE], BlankFrame}

\* push events: group messages of every group and body, and events of
\* another kind that would otherwise be accepted
GroupMessage(g, it) ==
    [BlankFrame EXCEPT !.post_type = "message", !.message_type = "group",
                       !.group_id = g, !.message = it.message,
                       !.sender = it.sender, !.time = it.time]

EventFrames ==
    { GroupMessage(g, it) : g \in {None, Some(1), Some(12)}, it \in Items }
    \cup { [GroupMessage(g, ItemText) EXCEPT !.message_type = "private"] :
             g \in {Some(1), Some(12)} }
    \cup { [GroupMessage(g, ItemText) EXCEPT !.post_type = "notice"] :
             g \in {Some(1), Some(12)} }

\* the msg of an error response: absent, or a text
ErrorMsgs == {<<>>, <<"m">>}

\* responses: success with each payload, or a remote error
ResponseFrames(echoes, payloads, msgs) ==
    { [BlankFrame EXCEPT !.echo = Some(ec), !.retcode = 0, !.data = d] :
        ec \in echoes \cup {BogusEcho}, d \in payloads }
    \cup { [BlankFrame EXCEPT !.echo = Some(ec), !.retcode = rc, !.msg = m] :
             ec \in echoes \cup {BogusEcho}, rc \in RetCodes \ {0},
             m \in msgs }

NoArg == None
GroupArgs == {<<>>, <<"1">>, <<"1", "2">>}
DurationArgs == {NoArg, Some(<<"0">>), Some(<<"2">>)}
CountArgs == {NoArg, Some(<<"0">>), Some(<<"3">>)}

\* parseArgs of collect.mjs: --duration <n> is parseInt(n, 10) || 60
parseArgsCollect(argv) ==
    [group |-> argv.group,
     duration |-> IF argv.duration = NoArg THEN DefaultDuration
                  ELSE OrDefault(ParseInt(argv.duration[1]), DefaultDuration),
     count |-> 0]

\* parseArgs of fetch.mjs: --count <n> is parseInt(n, 10) || 100
parseArgsFetch(argv) ==
    [group |-> argv.group,
     duration |-> 0,
     count |-> IF argv.count = NoArg THEN DefaultCount
               ELSE OrDefault(ParseInt(argv.count[1]), DefaultCount)]

\* historyData?.messages || historyData || [], then [] unless an array
HistoryMessagesDirectOnly(historyData) ==
    IF historyData.shape = "list" THEN historyData.items ELSE <<>>

HistoryMessages(historyData) ==
    IF historyData.shape = "nested" THEN historyData.items
    ELSE IF historyData.shape = "list" THEN historyData.items
    ELSE <<>>

\* ------------------------------------------------------------------------
\* State
\* ------------------------------------------------------------------------
VARIABLES
    flow,               \* "collect", "fetch", or "correlator" (sendRequest alone)
    argv,               \* the command line
    args,               \* parseArgs(argv)
    targetGroup,        \* collect: parseInt(args.group, 10)
    wsState,            \* ws.readyState
    closeCalled,        \* ws.close() was invoked
    connectPromise,     \* "pending", "resolved", "rejTimeout", "rejError"
    connectTimer,       \* "unset", "armed", "cleared", "fired"
    pc,                 \* where main() is
    collectedMessages,  \* collect: the buffer
    msgListener,        \* collect: the 'message' listener is registered
    deadlineTimer,      \* collect: "unset", "armed", "fired"
    deadlineDue,        \* collect: when the deadline timer is due
    startTime,          \* collect: new Date() at the start of main
    requestId,          \* fetch: the module counter
    reqs,               \* fetch: one record per sendRequest call
    sent,               \* frames handed to ws.send
    stdout,             \* reports printed by console.log
    stderr,             \* error objects printed by console.error
    exitStatus,         \* "running", "exit0", "exit1", "signal"
    now,                \* the clock, in milliseconds
    ticks,              \* clock steps taken (bounded)
    nframes,            \* frames delivered (bounded)
    matchCount,         \* history: matching, non-empty-text events delivered
    sealedLen,          \* history: buffer length when the report was built
    openedAt,           \* history: the time of the 'open' event
    lost,               \* history: how the open socket went away before
                        \* ws.close(): "no", "close", "error"
    lastJunkAt          \* history: the number of the last frame delivered
                        \* that has neither shape (0: none so far)

vars == <<flow, argv, args, targetGroup, wsState, closeCalled, connectPromise,
          connectTimer, pc, collectedMessages, msgListener, deadlineTimer,
          deadlineDue, startTime, requestId, reqs, sent, stdout, stderr,
          exitStatus, now, ticks, nframes, matchCount, sealedLen, openedAt,
          lost, lastJunkAt>>

Alive == exitStatus = "running"

ErrorObject(kind) == [success |-> FALSE, error |-> kind]

NoOutcome ==
    [kind |-> "none", retcode |-> 0, msg |-> <<>>, data |-> NullPayload,
     via |-> None]

\* ------------------------------------------------------------------------
\* Initial states: main() has run up to its first await
\* ------------------------------------------------------------------------
InitCommon ==
    /\ closeCalled = FALSE
    /\ collectedMessages = <<>>
    /\ msgListener = FALSE
    /\ deadlineTimer = "unset"
    /\ deadlineDue = 0
    /\ startTime = 0
    /\ requestId = 0
    /\ reqs = <<>>
    /\ sent = <<>>
    /\ stdout = <<>>
    /\ now = 0
    /\ ticks = 0
    /\ nframes = 0
    /\ matchCount = 0
    /\ sealedLen = 0
    /\ openedAt = 0
    /\ lost = "no"
    /\ lastJunkAt = 0

\* parseArgs prints an error and exits with status 1 when --group is
\* missing; otherwise main creates the socket, arms the connect timer and
\* awaits connectPromise
InitMain ==
    IF args.group = <<>>
    THEN /\ wsState = "UNCREATED"
         /\ connectPromise = "pending"
         /\ connectTimer = "unset"
         /\ pc = "exited"
         /\ stderr = <<ErrorObject("missing_group")>>
         /\ exitStatus = "exit1"
    ELSE /\ wsState = "CONNECTING"
         /\ connectPromise = "pending"
         /\ connectTimer = "armed"
         /\ pc = "awaitConnect"
         /\ stderr = <<>>
         /\ exitStatus = "running"

InitCollect ==
    /\ flow = "collect"
    /\ argv \in [group : GroupArgs, duration : DurationArgs, count : {NoArg}]
    /\ args = parseArgsCollect(argv)
    /\ targetGroup = ParseInt(args.group)
    /\ InitMain
    /\ InitCommon

InitFetch ==
    /\ flow = "fetch"
    /\ argv \in [group : GroupArgs, duration : {NoArg}, count : CountArgs]
    /\ args = parseArgsFetch(argv)
    /\ targetGroup = None
    /\ InitMain
    /\ InitCommon

\* sendRequest on its own: a caller issues requests on an open connection
InitCorrelator ==
    /\ flow = "correlator"
    /\ argv = [group |-> <<"1", "2">>, duration |-> NoArg, count |-> NoArg]
    /\ args = parseArgsFetch(argv)
    /\ targetGroup = None
    /\ wsState = "OPEN"
    /\ connectPromise = "resolved"
    /\ connectTimer = "cleared"
    /\ pc = "caller"
    /\ stderr = <<>>
    /\ exitStatus = "running"
    /\ InitCommon

Init == InitCollect \/ InitFetch \/ InitCorrelator

\* ------------------------------------------------------------------------
\* sendRequest
\* ------------------------------------------------------------------------
\* resolve / reject of a promise: only the first call settles it
SettleOverwrite(r, kind, outcome) ==
    [r EXCEPT !.promise = kind, !.outcome = outcome, !.settles = @ + 1]

Settle(r, kind, outcome) ==
    IF r.promise = "pending"
    THEN [r EXCEPT !.promise = kind, !.outcome = outcome, !.settles = @ + 1]
    ELSE r

\* the request record that sendRequest creates: echo minted, timer armed,
\* handler registered
MintEchoNoCounter(id, t) == Echo(0, t)

MintEcho(id, t) == Echo(id, t)

NewRequest(id, t) ==
    [echo |-> MintEcho(id, t), promise |-> "pending", outcome |-> NoOutcome,
     settles |-> 0, timer |-> "armed", due |-> t + RequestTimeoutMs,
     listening |-> TRUE]

\* the frame handed to ws.send
RequestFrame(group, count, echo) ==
    [action |-> "get_group_msg_history",
     params |-> [group_id |-> ParseInt(group), count |-> count],
     echo |-> echo]

\* String(array) of an array of objects: "[object Object]" per element,
\* joined by commas (one "O" stands for "[object Object]")
RECURSIVE ArrayToString(_)
ArrayToString(segs) ==
    IF segs = <<>> THEN <<>>
    ELSE IF Len(segs) = 1 THEN <<"O">>
    ELSE <<"O", ",">> \o ArrayToString(Tail(segs))

\* data.msg || data.message || '未知' in the text of the API error
ErrorTextUnknown(f) == <<"?">>

ErrorText(f) ==
    IF f.msg # <<>> THEN f.msg
    ELSE IF f.message.isArray THEN ArrayToString(f.message.segs)
    ELSE <<"?">>

\* handler(raw) of request r on frame f
handlerAnyEcho(r, f) ==
    IF ~f.json THEN r
    ELSE LET r1 == [r EXCEPT !.timer = IF @ = "armed" THEN "cleared" ELSE @,
                             !.listening = FALSE]
         IN  IF f.retcode = 0
             THEN Settle(r1, "resolved",
                         [kind |-> "payload", retcode |-> 0, msg |-> <<>>,
                          data |-> f.data, via |-> Some(f.echo)])
             ELSE Settle(r1, "rejected",
                         [kind |-> "api_error", retcode |-> f.retcode,
                          msg |-> ErrorText(f), data |-> NullPayload,
                          via |-> Some(f.echo)])

handler(r, f) ==
    IF ~f.json THEN r
    ELSE IF f.echo # Some(r.echo) THEN r
    ELSE LET r1 == [r EXCEPT !.timer = IF @ = "armed" THEN "cleared" ELSE @,
                             !.listening = FALSE]
         IN  IF f.retcode = 0
             THEN Settle(r1, "resolved",
                         [kind |-> "payload", retcode |-> 0, msg |-> <<>>,
                          data |-> f.data, via |-> Some(f.echo)])
             ELSE Settle(r1, "rejected",
                         [kind |-> "api_error", retcode |-> f.retcode,
                          msg |-> ErrorText(f), data |-> NullPayload,
                          via |-> Some(f.echo)])

\* the timer callback of request r: reject, nothing else
onRequestTimeoutNoReject(r) == [r EXCEPT !.timer = "fired"]

onRequestTimeout(r) ==
    Settle([r EXCEPT !.timer = "fired"], "rejected",
           [kind |-> "request_timeout", retcode |-> 0, msg |-> <<>>,
            data |-> NullPayload, via |-> None])

\* every registered handler sees the frame, in registration order
DispatchSharedFailure(rs, f) ==
    [i \in DOMAIN rs |->
        IF ~rs[i].listening THEN rs[i]
        ELSE IF /\ f.json
                /\ f.retcode # 0
                /\ \E k \in DOMAIN rs : f.echo = Some(rs[k].echo)
        THEN handler(rs[i], [f EXCEPT !.echo = Some(rs[i].echo)])
        ELSE handler(rs[i], f)]

Dispatch(rs, f) ==
    [i \in DOMAIN rs |-> IF rs[i].listening THEN handler(rs[i], f) ELSE rs[i]]

\* ------------------------------------------------------------------------
\* main(): what runs after an await
\* ------------------------------------------------------------------------
\* ws.close(): starts the closing handshake of an open socket
wsCloseState(ws) == IF ws = "OPEN" THEN "CLOSING" ELSE ws

\* the process ends by itself when main has returned and the socket is gone
ExitWhenIdleOnClose(pcNew, wsNew) ==
    IF wsNew = "CLOSED" THEN "exit0" ELSE "running"

ExitWhenIdle(pcNew, wsNew) ==
    IF pcNew = "returned" /\ wsNew = "CLOSED" THEN "exit0" ELSE "running"

\* catch (err): console.error(...), process.exit(1); the finally block is
\* not reached
CatchExit(kind, wsNew) ==
    /\ stderr' = Append(stderr, ErrorObject(kind))
    /\ exitStatus' = "exit1"
    /\ pc' = "exited"
    /\ wsState' = wsNew
    /\ UNCHANGED <<stdout, closeCalled>>

\* the report of fetch.mjs
FetchReport(historyData) ==
    LET messages == MapFilter(HistoryMessages(historyData))
    IN  [success |-> TRUE, group_id |-> args.group,
         fetched_count |-> Len(messages), requested_count |-> args.count,
         fetch_time |-> now, messages |-> messages]

\* the report of collect.mjs
CollectReportNewestFirst ==
    [success |-> TRUE, group_id |-> args.group,
     collected_count |-> Len(collectedMessages),
     duration_minutes |-> args.duration,
     start_time |-> startTime, end_time |-> now,
     messages |-> [i \in 1..Len(collectedMessages) |->
                     collectedMessages[Len(collectedMessages) + 1 - i]]]

CollectReport ==
    [success |-> TRUE, group_id |-> args.group,
     collected_count |-> Len(collectedMessages),
     duration_minutes |-> args.duration,
     start_time |-> startTime, end_time |-> now,
     messages |-> collectedMessages]

\* console.log(report), then finally: ws.close()
ReturnReport(report, wsNew) ==
    /\ stdout' = Append(stdout, report)
    /\ closeCalled' = TRUE
    /\ wsState' = wsCloseState(wsNew)
    /\ pc' = "returned"
    /\ exitStatus' = ExitWhenIdle("returned", wsCloseState(wsNew))
    /\ UNCHANGED stderr

\* fetch: the continuation of `await sendRequest(...)` once request 1 has
\* settled as rsNew[1]; otherwise main stays where it is
AfterRequests(rsNew, wsNew) ==
    IF flow = "fetch" /\ pc = "awaitRequest" /\ rsNew[1].promise = "resolved"
    THEN ReturnReport(FetchReport(rsNew[1].outcome.data), wsNew)
    ELSE IF flow = "fetch" /\ pc = "awaitRequest" /\ rsNew[1].promise = "rejected"
    THEN CatchExit(rsNew[1].outcome.kind, wsNew)
    ELSE /\ wsState' = wsNew
         /\ exitStatus' = ExitWhenIdle(pc, wsNew)
         /\ UNCHANGED <<pc, stdout, stderr, closeCalled>>

\* ------------------------------------------------------------------------
\* Timers and the clock
\* ------------------------------------------------------------------------
\* setTimeout(cb, ms): a delay below 1 or above 2^31 - 1 becomes 1
TimerDelay(ms) == IF ms < 1 \/ ms > 2147483647 THEN 1 ELSE ms

ArmedDues ==
    (IF connectTimer = "armed" THEN {ConnectTimeoutMs} ELSE {})
    \cup (IF deadlineTimer = "armed" THEN {deadlineDue} ELSE {})
    \cup {reqs[i].due : i \in {j \in DOMAIN reqs : reqs[j].timer = "armed"}}

NextDue == CHOOSE d \in ArmedDues : \A e \in ArmedDues : d <= e

\* the clock moves one millisecond, not past the next armed timer
Tick ==
    /\ Alive
    /\ UNCHANGED <<lost, lastJunkAt>>
    /\ ArmedDues # {}
    /\ ticks < MaxTicks
    /\ now + 1 <= NextDue
    /\ now' = now + 1
    /\ ticks' = ticks + 1
    /\ UNCHANGED <<flow, argv, args, targetGroup, wsState, closeCalled,
                   connectPromise, connectTimer, pc, collectedMessages,
                   msgListener, deadlineTimer, deadlineDue, startTime,
                   requestId, reqs, sent, stdout, stderr, exitStatus,
                   nframes, matchCount, sealedLen, openedAt>>

\* the clock moves to the time the next armed timer is due
Jump ==
    /\ Alive
    /\ UNCHANGED <<lost, lastJunkAt>>
    /\ ArmedDues # {}
    /\ now < NextDue
    /\ now' = NextDue
    /\ UNCHANGED <<flow, argv, args, targetGroup, wsState, closeCalled,
                   connectPromise, connectTimer, pc, collectedMessages,
                   msgListener, deadlineTimer, deadlineDue, startTime,
                   requestId, reqs, sent, stdout, stderr, exitStatus,
                   ticks, nframes, matchCount, sealedLen, openedAt>>

\* ------------------------------------------------------------------------
\* Connection events
\* ------------------------------------------------------------------------
\* resolve / reject of connectPromise: a settled promise keeps its state
SettleConnectOverwrite(p, result) == result

SettleConnect(p, result) == IF p = "pending" THEN result ELSE p

\* clearTimeout(timeout) of the connect timer
ClearConnectTimer(t) == IF t = "armed" THEN "cleared" ELSE t

\* the time the deadline timer of collect is due when it is armed at time t:
\* setTimeout(resolve, durationMs)
CollectDeadlineFromStart(t, duration) ==
    startTime + TimerDelay(duration * MsPerMinute)

CollectDeadline(t, duration) == t + TimerDelay(duration * MsPerMinute)

\* 'open': clearTimeout, resolve; then main continues after
\* `await connectPromise`: collect registers its listeners and arms the
\* deadline timer, fetch calls sendRequest
WsOpen ==
    /\ Alive
    /\ UNCHANGED <<lost, lastJunkAt>>
    /\ wsState = "CONNECTING"
    /\ pc = "awaitConnect"
    /\ wsState' = "OPEN"
    /\ connectTimer' = ClearConnectTimer(connectTimer)
    /\ connectPromise' = SettleConnect(connectPromise, "resolved")
    /\ openedAt' = now
    /\ IF flow = "collect"
       THEN /\ msgListener' = TRUE
            /\ deadlineTimer' = "armed"
            /\ deadlineDue' = CollectDeadline(now, args.duration)
            /\ pc' = "awaitDeadline"
            /\ UNCHANGED <<requestId, reqs, sent>>
       ELSE /\ requestId' = requestId + 1
            /\ reqs' = Append(reqs, NewRequest(requestId + 1, now))
            /\ sent' = Append(sent, RequestFrame(args.group, args.count,
                                                 MintEcho(requestId + 1, now)))
            /\ pc' = "awaitRequest"
            /\ UNCHANGED <<msgListener, deadlineTimer, deadlineDue>>
    /\ UNCHANGED <<flow, argv, args, targetGroup, closeCalled,
                   collectedMessages, startTime, stdout, stderr, exitStatus,
                   now, ticks, nframes, matchCount, sealedLen>>

\* the connect timer fires: reject; main's catch prints the error and exits
ConnectTimeout ==
    /\ Alive
    /\ UNCHANGED <<lost, lastJunkAt>>
    /\ connectTimer = "armed"
    /\ now >= ConnectTimeoutMs
    /\ connectTimer' = "fired"
    /\ connectPromise' = SettleConnect(connectPromise, "rejTimeout")
    /\ CatchExit("connect_timeout", wsState)
    /\ UNCHANGED <<flow, argv, args, targetGroup, collectedMessages,
                   msgListener, deadlineTimer, deadlineDue, startTime,
                   requestId, reqs, sent, now, ticks, nframes, matchCount,
                   sealedLen, openedAt>>

\* 'error': clearTimeout, reject.  While connecting, main's catch prints
\* the error and exits.  Once the promise is resolved the listener changes
\* nothing, and the failed socket emits 'close' right after 'error'
WsError ==
    /\ Alive
    /\ wsState \in {"CONNECTING", "OPEN"}
    /\ connectTimer' = ClearConnectTimer(connectTimer)
    /\ connectPromise' = SettleConnect(connectPromise, "rejError")
    /\ lost' = IF wsState = "OPEN" THEN "error" ELSE lost
    /\ IF pc = "awaitConnect"
       THEN CatchExit("connect_failed", "CLOSED")
       ELSE /\ wsState' = "CLOSED"
            /\ exitStatus' = ExitWhenIdle(pc, "CLOSED")
            /\ UNCHANGED <<pc, stdout, stderr, closeCalled>>
    /\ UNCHANGED <<flow, argv, args, targetGroup, collectedMessages,
                   msgListener, deadlineTimer, deadlineDue, startTime,
                   requestId, reqs, sent, now, ticks, nframes, matchCount,
                   sealedLen, openedAt, lastJunkAt>>

\* 'close': the peer closed or the closing handshake finished.  collect
\* logs it; fetch has no listener for it
WsClose ==
    /\ Alive
    /\ wsState \in {"OPEN", "CLOSING"}
    /\ wsState' = "CLOSED"
    /\ lost' = IF wsState = "OPEN" THEN "close" ELSE lost
    /\ exitStatus' = ExitWhenIdle(pc, "CLOSED")
    /\ UNCHANGED <<flow, argv, args, targetGroup, closeCalled, connectPromise,
                   connectTimer, pc, collectedMessages, msgListener,
                   deadlineTimer, deadlineDue, startTime, requestId, reqs,
                   sent, stdout, stderr, now, ticks, nframes, matchCount,
                   sealedLen, openedAt, lastJunkAt>>

\* no handler is installed for SIGINT / SIGTERM: the process is killed
Signal ==
    /\ Alive
    /\ UNCHANGED <<lost, lastJunkAt>>
    /\ flow \in {"collect", "fetch"}
    /\ exitStatus' = "signal"
    /\ UNCHANGED <<flow, argv, args, targetGroup, wsState, closeCalled,
                   connectPromise, connectTimer, pc, collectedMessages,
                   msgListener, deadlineTimer, deadlineDue, startTime,
                   requestId, reqs, sent, stdout, stderr, now, ticks, nframes,
                   matchCount, sealedLen, openedAt>>

\* ------------------------------------------------------------------------
\* Inbound frames
\* ------------------------------------------------------------------------
\* the filter of collect's 'message' listener
AcceptsAnyGroup(f) ==
    /\ f.json
    /\ f.post_type = "message"
    /\ f.message_type = "group"

Accepts(f) ==
    /\ f.json
    /\ f.post_type = "message"
    /\ f.message_type = "group"
    /\ StrictEq(ParseInt(ToStr(f.group_id)), targetGroup)

\* collect's 'message' listener: push the formatted event, if any
onMessageNoFilter(buf, f) ==
    IF f.json THEN buf \o formatMessage(f) ELSE buf

onMessage(buf, f) ==
    IF Accepts(f) THEN buf \o formatMessage(f) ELSE buf

\* the event is a group message of the group named on the command line
\* and carries text (history, for the buffer-size property)
IsTargetText(f) ==
    /\ f.json
    /\ f.post_type = "message"
    /\ f.message_type = "group"
    /\ f.group_id # None
    /\ NatToStr(f.group_id[1]) = args.group
    /\ \E i \in 1..Len(f.message.segs) :
          /\ f.message.segs[i].type = "text"
          /\ \E k \in 1..Len(f.message.segs[i].text) : f.message.segs[i].text[k] # " "

\* the class of a frame: text that is not JSON, a response (it carries an
\* echo), a group message push event, or any other JSON object
FrameKind(f) ==
    IF ~f.json THEN "malformed"
    ELSE IF f.echo # None THEN "response"
    ELSE IF f.post_type = "message" /\ f.message_type = "group" THEN "event"
    ELSE "other"

\* the frames that may arrive: every payload shape where the payload is
\* read (fetch), every push event where events are read (collect)
InboundFrames ==
    MalformedFrames
    \cup (IF flow = "correlator" THEN {GroupMessage(Some(12), ItemText)}
          ELSE EventFrames)
    \cup ResponseFrames({reqs[i].echo : i \in DOMAIN reqs},
                        IF flow = "fetch" THEN Payloads
                        ELSE {[shape |-> "list", items |-> <<ItemText>>]},
                        IF flow = "fetch" THEN ErrorMsgs ELSE {<<"m">>})

\* 'message': every registered listener runs on the frame
WsMessage ==
    /\ Alive
    /\ wsState \in {"OPEN", "CLOSING"}
    /\ nframes < MaxFrames
    /\ \E f \in InboundFrames :
          /\ collectedMessages' =
                IF msgListener THEN onMessage(collectedMessages, f)
                ELSE collectedMessages
          /\ matchCount' =
                IF flow = "collect" /\ IsTargetText(f) THEN matchCount + 1
                ELSE matchCount
          /\ reqs' = Dispatch(reqs, f)
          /\ AfterRequests(Dispatch(reqs, f), wsState)
          /\ lastJunkAt' =
                IF FrameKind(f) \in {"malformed", "other"} THEN nframes + 1
                ELSE lastJunkAt
    /\ nframes' = nframes + 1
    /\ UNCHANGED <<flow, argv, args, targetGroup, connectPromise,
                   connectTimer, msgListener, deadlineTimer, deadlineDue,
                   startTime, requestId, sent, now, ticks, sealedLen, openedAt,
                   lost>>

\* ------------------------------------------------------------------------
\* Timers of the flows
\* ------------------------------------------------------------------------
\* collect: the deadline timer fires; main builds and prints the report,
\* then finally closes the socket
Deadline ==
    /\ Alive
    /\ UNCHANGED <<lost, lastJunkAt>>
    /\ flow = "collect"
    /\ pc = "awaitDeadline"
    /\ deadlineTimer = "armed"
    /\ now >= deadlineDue
    /\ deadlineTimer' = "fired"
    /\ sealedLen' = Len(collectedMessages)
    /\ ReturnReport(CollectReport, wsState)
    /\ UNCHANGED <<flow, argv, args, targetGroup, connectPromise,
                   connectTimer, collectedMessages, msgListener, deadlineDue,
                   startTime, requestId, reqs, sent, now, ticks, nframes,
                   matchCount, openedAt>>

\* the 15 s timer of a request fires
RequestTimeout ==
    /\ Alive
    /\ UNCHANGED <<lost, lastJunkAt>>
    /\ \E i \in DOMAIN reqs :
          /\ reqs[i].timer = "armed"
          /\ now >= reqs[i].due
          /\ reqs' = [reqs EXCEPT ![i] = onRequestTimeout(@)]
          /\ AfterRequests([reqs EXCEPT ![i] = onRequestTimeout(@)], wsState)
    /\ UNCHANGED <<flow, argv, args, targetGroup, connectPromise,
                   connectTimer, collectedMessages, msgListener,
                   deadlineTimer, deadlineDue, startTime, requestId, sent,
                   now, ticks, nframes, matchCount, sealedLen, openedAt>>

\* correlator: a caller invokes sendRequest on the open connection
CallSendRequest ==
    /\ Alive
    /\ UNCHANGED <<lost, lastJunkAt>>
    /\ flow = "correlator"
    /\ wsState = "OPEN"
    /\ requestId < MaxReq
    /\ requestId' = requestId + 1
    /\ reqs' = Append(reqs, NewRequest(requestId + 1, now))
    /\ sent' = Append(sent, RequestFrame(args.group, args.count,
                                         MintEcho(requestId + 1, now)))
    /\ UNCHANGED <<flow, argv, args, targetGroup, wsState, closeCalled,
                   connectPromise, connectTimer, pc, collectedMessages,
                   msgListener, deadlineTimer, deadlineDue, startTime, stdout,
                   stderr, exitStatus, now, ticks, nframes, matchCount,
                   sealedLen, openedAt>>

Next ==
    \/ WsOpen
    \/ WsError
    \/ WsClose
    \/ WsMessage
    \/ ConnectTimeout
    \/ Deadline
    \/ RequestTimeout
    \/ CallSendRequest
    \/ Signal
    \/ Tick
    \/ Jump

Spec == Init /\ [][Next]_vars

\* fetch.mjs alone, with timers that fire: the clock reaches the time an
\* armed timer is due, and a timer that is due runs its callback
NextFetch ==
    \/ WsOpen
    \/ WsError
    \/ WsClose
    \/ WsMessage
    \/ ConnectTimeout
    \/ RequestTimeout
    \/ Signal
    \/ Tick
    \/ Jump

FetchSpec ==
    /\ InitFetch
    /\ [][NextFetch]_vars
    /\ WF_vars(Jump)
    /\ WF_vars(ConnectTimeout)
    /\ WF_vars(RequestTimeout)

\* ------------------------------------------------------------------------
\* Type invariant
\* ------------------------------------------------------------------------
TypeOK ==
    /\ flow \in {"collect", "fetch", "correlator"}
    /\ wsState \in {"UNCREATED", "CONNECTING", "OPEN", "CLOSING", "CLOSED"}
    /\ connectPromise \in {"pending", "resolved", "rejTimeout", "rejError"}
    /\ connectTimer \in {"unset", "armed", "cleared", "fired"}
    /\ pc \in {"awaitConnect", "awaitDeadline", "awaitRequest", "returned",
               "exited", "caller"}
    /\ exitStatus \in {"running", "exit0", "exit1", "signal"}
    /\ nframes \in 0..MaxFrames
    /\ requestId = Len(reqs)
    /\ lost \in {"no", "close", "error"}
    /\ lastJunkAt \in 0..nframes

\* ------------------------------------------------------------------------
\* Properties
\* ------------------------------------------------------------------------
Settled(r) == r.promise # "pending"

\* the item carries text that survives trimming
HasText(item) ==
    /\ item.message.isArray
    /\ \E i \in 1..Len(item.message.segs) :
          /\ item.message.segs[i].type = "text"
          /\ \E k \in 1..Len(item.message.segs[i].text) :
                item.message.segs[i].text[k] # " "

\* C1: a frame settles only the pending request whose echo it carries: when
\* a request goes from pending to settled by a frame, that frame carried
\* the request's own echo, and no other request changed in that step.
C1_ResponseRouting ==
    [][\A i \in DOMAIN reqs :
          (~Settled(reqs[i]) /\ Settled(reqs'[i]) /\ reqs'[i].outcome.via # None)
          => /\ reqs'[i].outcome.via = Some(Some(reqs[i].echo))
             /\ \A j \in DOMAIN reqs : j # i => reqs'[j] = reqs[j]]_vars

\* two requests outstanding, the later one answered first
C1_Witness ==
    /\ flow = "correlator"
    /\ Len(reqs) = 2
    /\ reqs[2].promise = "resolved"
    /\ reqs[2].outcome.via = Some(Some(reqs[2].echo))
    /\ reqs[1].promise = "pending"
    /\ reqs[1].listening

\* C2: once the 15 s timer of a request has fired, the request is rejected
\* with the request-timeout error and its message listener is no longer
\* registered on the connection.
C2_TimeoutRemovesWaiter ==
    \A i \in DOMAIN reqs :
        (Alive /\ reqs[i].timer = "fired")
        => /\ reqs[i].promise = "rejected"
           /\ reqs[i].outcome.kind = "request_timeout"
           /\ ~reqs[i].listening

\* C3: a request does not stay pending on a closed connection: when the
\* connection closes, a pending request fails with ConnectionLost there
\* and then.
C3_CloseFailsPending ==
    wsState = "CLOSED"
    => \A i \in DOMAIN reqs :
          /\ Settled(reqs[i])
          /\ reqs[i].outcome.kind # "request_timeout"

\* C4: a request is settled at most once: once it has an outcome, no later
\* matching response, duplicate response or timer changes the outcome or
\* delivers another one.
C4_SettledOnce ==
    [][\A i \in DOMAIN reqs :
          /\ reqs'[i].settles <= 1
          /\ Settled(reqs[i])
             => /\ reqs'[i].promise = reqs[i].promise
                /\ reqs'[i].outcome = reqs[i].outcome
                /\ reqs'[i].settles = reqs[i].settles]_vars

\* the timer fired first, and the matching response came afterwards (only
\* the handler of a matching response removes the listener)
C4_Witness ==
    \E i \in DOMAIN reqs :
        /\ reqs[i].timer = "fired"
        /\ ~reqs[i].listening
        /\ reqs[i].outcome.kind = "request_timeout"
        /\ reqs[i].settles = 1

\* C5: the buffer holds exactly one record per delivered event that is a
\* group message of the target group with non-empty text; events of other
\* groups or kinds add nothing.
C5_BufferCountsMatches ==
    flow = "collect"
    => /\ Len(collectedMessages) = matchCount
       /\ \A k \in 1..Len(collectedMessages) :
             collectedMessages[k].content # <<>>

\* three events delivered, one of them accepted
C5_Witness ==
    /\ flow = "collect"
    /\ nframes = 3
    /\ matchCount = 1
    /\ Len(collectedMessages) = 1

\* C6: a collection cancelled by a signal while collecting ends with a
\* report of exactly the records buffered so far, end_time >= start_time.
C6_CancelProducesReport ==
    (flow = "collect" /\ pc = "awaitDeadline" /\ exitStatus = "signal")
    => /\ Len(stdout) = 1
       /\ stdout[1].collected_count = Len(collectedMessages)
       /\ stdout[1].end_time >= stdout[1].start_time

\* C7: after the report is built the buffer is never mutated, and the
\* report is produced exactly once.
C7_SealedAfterFinalize ==
    (flow = "collect" /\ deadlineTimer = "fired")
    => /\ Len(collectedMessages) = sealedLen
       /\ Len(stdout) = 1

\* C8: in both flows ws.close() has been invoked whenever the flow has
\* ended, on the success path and on every failure path.
C8_ClosedOnEveryExit ==
    (flow \in {"collect", "fetch"} /\ wsState # "UNCREATED"
        /\ pc \in {"returned", "exited"})
    => closeCalled

\* C9: a collection started with --duration 0 has a deadline of zero: it
\* reports right after connecting, with no records and count 0.
C9_ZeroDurationImmediate ==
    (flow = "collect" /\ argv.duration = Some(<<"0">>) /\ Len(stdout) = 1)
    => /\ stdout[1].collected_count = 0
       /\ stdout[1].messages = <<>>
       /\ stdout[1].end_time <= openedAt + 1

\* C10: when the history request succeeds with an item list (direct or
\* under messages), the report counts the items with non-empty text, lists
\* them in the remote order, and repeats the requested count.
C10_FetchReport ==
    (flow = "fetch" /\ Len(stdout) = 1
        /\ reqs[1].outcome.data.shape \in {"list", "nested"})
    => LET rep == stdout[1]
           kept == SelectSeq(reqs[1].outcome.data.items, HasText)
       IN  /\ rep.fetched_count = Len(kept)
           /\ Len(rep.messages) = Len(kept)
           /\ \A k \in 1..Len(kept) :
                 /\ rep.messages[k].content = Trim(JoinTexts(kept[k].message.segs))
                 /\ rep.messages[k].sender = SenderName(kept[k].sender)
                 /\ rep.messages[k].timestamp = Some(kept[k].time)
           /\ rep.requested_count = sent[1].params.count
           /\ argv.count = Some(<<"3">>) => rep.requested_count = 3

\* --count 3, three items under messages, one of them without text
C10_Witness ==
    /\ flow = "fetch"
    /\ Len(stdout) = 1
    /\ reqs[1].outcome.data.shape = "nested"
    /\ Len(reqs[1].outcome.data.items) = 3
    /\ stdout[1].fetched_count = 2
    /\ stdout[1].requested_count = 3

\* a response with retcode 0 that carries the echo of request r
OkResponseFor(r) == [BlankFrame EXCEPT !.echo = Some(r.echo)]

\* C11: the failure of a request touches no other request: in a step where
\* a pending request is rejected (its timer fired, or an error response
\* with its echo arrived), every other pending request keeps its record
\* unchanged, so it is still pending with its listener registered and its
\* timer armed, and a response with its own echo would still resolve it.
C11_FailureIsLocal ==
    [][\A i \in DOMAIN reqs :
          (~Settled(reqs[i]) /\ reqs'[i].promise = "rejected")
          => \A j \in DOMAIN reqs :
                (j # i /\ ~Settled(reqs[j]))
                => /\ reqs'[j] = reqs[j]
                   /\ reqs'[j].promise = "pending"
                   /\ reqs'[j].listening
                   /\ reqs'[j].timer = "armed"
                   /\ handler(reqs'[j], OkResponseFor(reqs'[j])).promise
                         = "resolved"]_vars

\* request 2 was issued before the timer of request 1 fired, request 1 has
\* timed out, and request 2 is still waiting
C11_Witness ==
    /\ flow = "correlator"
    /\ Len(reqs) = 2
    /\ reqs[1].promise = "rejected"
    /\ reqs[1].outcome.kind = "request_timeout"
    /\ reqs[2].echo[3] < reqs[1].due
    /\ reqs[2].promise = "pending"
    /\ reqs[2].listening
    /\ reqs[2].timer = "armed"

\* what the claim expects of pending request r when response f with its
\* echo arrives: resolved with f's payload on retcode 0, otherwise rejected
\* with f's retcode and message; timer cancelled, listener removed
ExpectedAfter(r, f) ==
    [echo |-> r.echo,
     promise |-> IF f.retcode = 0 THEN "resolved" ELSE "rejected",
     outcome |->
        IF f.retcode = 0
        THEN [kind |-> "payload", retcode |-> 0, msg |-> <<>>,
              data |-> f.data, via |-> Some(f.echo)]
        ELSE [kind |-> "api_error", retcode |-> f.retcode,
              msg |-> IF f.msg = <<>> THEN <<"?">> ELSE f.msg,
              data |-> NullPayload, via |-> Some(f.echo)],
     settles |-> 1,
     timer |-> "cleared",
     due |-> r.due,
     listening |-> FALSE]

\* the responses that carry the echo of request r
ResponsesFor(r) ==
    {f \in ResponseFrames({r.echo}, Payloads, ErrorMsgs) :
        f.echo = Some(r.echo)}

\* C12: a response that carries the echo of a pending request resolves it
\* with the response's data when retcode is 0 and otherwise rejects it with
\* an error that carries the response's retcode and message; in the same
\* step the request's timer is cancelled and its listener is removed.
C12_MatchingResponse ==
    /\ [](\A i \in DOMAIN reqs :
            ~Settled(reqs[i])
            => \A f \in ResponsesFor(reqs[i]) :
                  handler(reqs[i], f) = ExpectedAfter(reqs[i], f))
    /\ [][\A i \in DOMAIN reqs :
             (~Settled(reqs[i]) /\ Settled(reqs'[i])
               /\ reqs'[i].outcome.via # None)
             => \E f \in InboundFrames :
                   /\ f.echo = Some(reqs[i].echo)
                   /\ reqs'[i] = ExpectedAfter(reqs[i], f)]_vars

\* one request resolved with the payload of its response, the other
\* rejected with the retcode and the message of its response
C12_Witness ==
    /\ flow = "correlator"
    /\ Len(reqs) = 2
    /\ reqs[1].promise = "resolved"
    /\ reqs[1].outcome.data.shape = "list"
    /\ reqs[1].timer = "cleared"
    /\ ~reqs[1].listening
    /\ reqs[2].promise = "rejected"
    /\ reqs[2].outcome.retcode = 1404
    /\ reqs[2].outcome.msg = <<"m">>
    /\ reqs[2].timer = "cleared"
    /\ ~reqs[2].listening

\* C13: a frame that is not JSON, or that has neither the shape of a
\* response nor that of a group message event, is dropped: the step that
\* delivers it changes neither the buffer nor any request, prints nothing,
\* leaves main where it is and the process running, and the listeners stay
\* registered for the frames that follow.
C13_JunkFramesDropped ==
    [][lastJunkAt' # lastJunkAt
       => /\ lastJunkAt' = nframes + 1
          /\ collectedMessages' = collectedMessages
          /\ reqs' = reqs
          /\ pc' = pc
          /\ stdout' = stdout
          /\ stderr' = stderr
          /\ exitStatus' = exitStatus
          /\ wsState' = wsState
          /\ msgListener' = msgListener]_vars

\* collect: the first frame was dropped, the second is in the buffer
C13_Witness ==
    /\ flow = "collect"
    /\ nframes = 2
    /\ lastJunkAt = 1
    /\ Len(collectedMessages) = 1
    /\ Alive

\* C14: a run that has ended produced exactly one outcome: either one
\* report on stdout, nothing on stderr and exit status 0, or one error
\* object on stderr, nothing on stdout and a non-zero exit status; and at
\* no time are there both a report and an error object.
C14_ExactlyOneOutcome ==
    /\ Len(stdout) + Len(stderr) <= 1
    /\ flow \in {"collect", "fetch"} /\ ~Alive
       => \/ /\ Len(stdout) = 1
             /\ stdout[1].success
             /\ stderr = <<>>
             /\ exitStatus = "exit0"
             /\ connectPromise = "resolved"
          \/ /\ stdout = <<>>
             /\ Len(stderr) = 1
             /\ ~stderr[1].success
             /\ exitStatus = "exit1"

\* C15: the connect wait is bounded and its result is that of the first of
\* the three events.  While the connect is undecided its timer is armed
\* and at most 10 s have passed; it is decided by 'open' (success, nothing
\* printed), by 'error' (the connect-failed error) or by the timer at 10 s
\* (the connect-timeout error); once decided, no later event changes it.
C15_ConnectFirstEventWins ==
    [][/\ connectPromise # "pending" => connectPromise' = connectPromise
       /\ (flow # "correlator" /\ Alive /\ connectPromise = "pending")
          => /\ connectTimer = "armed"
             /\ now <= ConnectTimeoutMs
       /\ (connectPromise = "pending" /\ connectPromise' # "pending")
          => \/ /\ connectPromise' = "resolved"
                /\ wsState' = "OPEN"
                /\ connectTimer' = "cleared"
                /\ stderr' = <<>>
                /\ exitStatus' = "running"
             \/ /\ connectPromise' = "rejError"
                /\ connectTimer' = "cleared"
                /\ stderr' = <<ErrorObject("connect_failed")>>
                /\ exitStatus' = "exit1"
             \/ /\ connectPromise' = "rejTimeout"
                /\ now = ConnectTimeoutMs
                /\ connectTimer' = "fired"
                /\ stderr' = <<ErrorObject("connect_timeout")>>
                /\ exitStatus' = "exit1"]_vars

\* the socket opened, failed afterwards with 'error', and the run still
\* ended with its report
C15_Witness ==
    /\ flow = "collect"
    /\ connectPromise = "resolved"
    /\ lost = "error"
    /\ Len(stdout) = 1
    /\ stderr = <<>>

\* C16: the buffer only grows at its end, by the record of the frame just
\* delivered: every step leaves it as it was or appends one record to it,
\* and the report lists the buffer as it is, in delivery order.
C16_AppendOnlyInOrder ==
    [][/\ \/ collectedMessages' = collectedMessages
          \/ /\ Len(collectedMessages') = Len(collectedMessages) + 1
             /\ SubSeq(collectedMessages', 1, Len(collectedMessages))
                   = collectedMessages
             /\ nframes' = nframes + 1
             /\ \E f \in InboundFrames :
                   formatMessage(f)
                     = <<collectedMessages'[Len(collectedMessages')]>>
       /\ (flow = "collect" /\ stdout = <<>> /\ stdout' # <<>>)
          => /\ stdout'[1].messages = collectedMessages
             /\ stdout'[1].collected_count = Len(collectedMessages)]_vars

\* the report lists a record with timestamp 5 before one with timestamp 3,
\* the order in which they were delivered
C16_Witness ==
    /\ flow = "collect"
    /\ Len(stdout) = 1
    /\ Len(stdout[1].messages) = 2
    /\ stdout[1].messages[1].timestamp = Some(5)
    /\ stdout[1].messages[2].timestamp = Some(3)

\* C17: the echoes of any two sendRequest calls differ: the counter is
\* incremented once per call, so the n-th call carries counter value n and
\* the counter equals the number of calls; hence no two requests, pending
\* or settled, share an echo, and the frame sent carries the echo minted.
C17_EchoesUnique ==
    /\ requestId = Len(reqs)
    /\ Len(sent) = Len(reqs)
    /\ \A i \in DOMAIN reqs :
          /\ reqs[i].echo[2] = i
          /\ sent[i].echo = reqs[i].echo
          /\ \A j \in DOMAIN reqs : i # j => reqs[i].echo # reqs[j].echo

\* two requests issued in the same millisecond, both pending
C17_Witness ==
    /\ Len(reqs) = 2
    /\ reqs[1].echo[3] = reqs[2].echo[3]
    /\ reqs[1].echo # reqs[2].echo
    /\ ~Settled(reqs[1])
    /\ ~Settled(reqs[2])

\* C18: in collect, the loss of the socket while main awaits the deadline
\* neither ends nor fails the run.  Every step (other than a kill by a
\* signal) taken while main awaits the deadline and that ends with the
\* socket closed leaves the buffer as it is and prints no error; either
\* main still awaits the deadline with its timer armed and nothing
\* printed, or the socket was closed already, the deadline has come, and
\* the step prints the success report with exactly the buffered records.
C18_CloseKeepsCollecting ==
    [][(/\ flow = "collect"
        /\ pc = "awaitDeadline"
        /\ Alive
        /\ wsState' = "CLOSED"
        /\ exitStatus' # "signal")
       => /\ collectedMessages' = collectedMessages
          /\ stderr' = <<>>
          /\ \/ /\ pc' = "awaitDeadline"
                /\ deadlineTimer' = "armed"
                /\ stdout' = <<>>
                /\ exitStatus' = "running"
             \/ /\ wsState = "CLOSED"
                /\ now >= deadlineDue
                /\ pc' = "returned"
                /\ Len(stdout') = 1
                /\ stdout'[1].success
                /\ stdout'[1].messages = collectedMessages
                /\ stdout'[1].collected_count = Len(collectedMessages)
                /\ exitStatus' = "exit0"]_vars

\* the peer closed the socket during the collection, after one record was
\* buffered; the run ended at the deadline with a report of that record
C18_Witness ==
    /\ flow = "collect"
    /\ lost = "close"
    /\ Len(stdout) = 1
    /\ stdout[1].collected_count = 1
    /\ stdout[1].end_time = deadlineDue
    /\ stderr = <<>>
    /\ exitStatus = "exit0"

\* C19: collect starts to collect only when the connect has succeeded.  The
\* message listener is registered and the deadline timer is set only with
\* the connect resolved, and the deadline is one duration after the time of
\* 'open'; start_time is the time main started, before the connect.  Until
\* the connect has succeeded the buffer is empty and there is no report;
\* a connect that failed or timed out leaves one error object, no report,
\* and main never awaits the deadline.
C19_CollectingOnlyAfterOpen ==
    flow = "collect"
    => /\ startTime = 0
       /\ startTime <= openedAt
       /\ msgListener => connectPromise = "resolved"
       /\ deadlineTimer # "unset"
          => /\ connectPromise = "resolved"
             /\ deadlineDue = openedAt + TimerDelay(args.duration * MsPerMinute)
       /\ pc \in {"awaitDeadline", "returned"} => connectPromise = "resolved"
       /\ connectPromise # "resolved"
          => /\ collectedMessages = <<>>
             /\ stdout = <<>>
             /\ ~msgListener
             /\ deadlineTimer = "unset"
       /\ connectPromise \in {"rejTimeout", "rejError"}
          => /\ Len(stderr) = 1
             /\ pc = "exited"
             /\ exitStatus = "exit1"
       /\ Len(stdout) = 1
          => /\ stdout[1].start_time = startTime
             /\ stdout[1].end_time = deadlineDue

\* the connect took 1 ms: the report of a 2 minute collection starts at 0
\* and ends 2 minutes after the time of 'open'
C19_Witness ==
    /\ flow = "collect"
    /\ openedAt = 1
    /\ args.duration = 2
    /\ Len(stdout) = 1
    /\ stdout[1].start_time = 0
    /\ stdout[1].end_time = 1 + 2 * MsPerMinute

\* fetch has its outcome: a report or an error object (or it was killed)
FetchDone == Len(stdout) + Len(stderr) = 1 \/ exitStatus = "signal"

\* fetch sends one request, at the time of 'open' and not before, and it
\* waits at most 10 s for the connect and at most 15 s more for the
\* response
FetchBounded ==
    /\ Len(sent) <= 1
    /\ Len(reqs) = Len(sent)
    /\ sent # <<>> <=> connectPromise = "resolved"
    /\ sent # <<>>
       => /\ reqs[1].echo[3] = openedAt
          /\ reqs[1].due = openedAt + RequestTimeoutMs
          /\ openedAt <= ConnectTimeoutMs
    /\ pc = "awaitConnect" => now <= ConnectTimeoutMs
    /\ pc = "awaitRequest" => now <= openedAt + RequestTimeoutMs
    /\ now <= ConnectTimeoutMs + RequestTimeoutMs
    /\ Len(stdout) = 1 => /\ Len(sent) = 1
                          /\ reqs[1].promise = "resolved"

\* C20: with timers that fire, fetch always comes to its outcome, whatever
\* the order of 'open', 'error', 'close' and inbound frames: a report or an
\* error object, no later than 10 s (connect) plus 15 s (request) after
\* the start; and it sends exactly one request, only once the socket is
\* open.
C20_FetchTerminates == []FetchBounded /\ <>FetchDone

\* the slowest run: 'open' at the very end of the connect wait, then no
\* response until the request timer fires
C20_Witness ==
    /\ flow = "fetch"
    /\ Len(sent) = 1
    /\ stderr = <<ErrorObject("request_timeout")>>
    /\ now = ConnectTimeoutMs + RequestTimeoutMs

====
